---- MODULE Spec2Model ----
(***************************************************************************)
(* Farmer-Market: the Flask request handlers of main.py as a state machine *)
(* over the document store (users, products), the upload directory, the    *)
(* browser session and the last response.  Each handler is one atomic      *)
(* action; its inputs (form, uploaded file, salt) are drawn with \E.       *)
(***************************************************************************)
EXTENDS Integers, Sequences, FiniteSets, TLC

\* ------------------------------------------------------------------ bounds
MaxUsers == 2
MaxProducts == 1
MaxTime == 2
MaxSteps == 3
\* Length of an ObjectId's hexadecimal form (24 in bson), scaled down.
OidLen == 2

\* ------------------------------------------------------------ python values
\* Python's None, as a value no form ever submits.
None == "<None>"

\* dict.get(key, default) on a mapping modelled as a function.
Get(d, k, default) == IF k \in DOMAIN d THEN d[k] ELSE default

\* d1 overlaid by d2: dict.update, and the store's $set of top-level fields.
Merge(d1, d2) ==
    [k \in (DOMAIN d1) \cup (DOMAIN d2) |-> IF k \in DOMAIN d2 THEN d2[k] ELSE d1[k]]

\* {k: v for k, v in d.items() if keep(v)}
Restrict(d, keys) == [k \in keys |-> d[k]]

EmptyDict == [k \in {} |-> None]

\* ------------------------------------------------------------------ strings
\* File names are sequences of characters (generated names use longer tokens).
\* str.lower, on the letters file names are written with here.
Lower(c) == CASE c = "P" -> "p" [] c = "N" -> "n" [] c = "G" -> "g" [] OTHER -> c
LowerStr(s) == [i \in 1..Len(s) |-> Lower(s[i])]

HasDot(s) == \E i \in 1..Len(s) : s[i] = "."
LastDot(s) == CHOOSE i \in 1..Len(s) : s[i] = "." /\ \A j \in (i+1)..Len(s) : s[j] # "."

\* s.rsplit('.', 1): one part when there is no dot, else the parts around the last dot.
RSplit(s) ==
    IF HasDot(s)
    THEN <<SubSeq(s, 1, LastDot(s) - 1), SubSeq(s, LastDot(s) + 1, Len(s))>>
    ELSE <<s>>

\* Config.ALLOWED_EXTENSIONS
ALLOWED_EXTENSIONS ==
    { <<"p","n","g">>, <<"j","p","g">>, <<"j","p","e","g">>, <<"g","i","f">> }

\* The keys the application's configuration holds (Config's attributes).
ConfigKeys ==
    {"SECRET_KEY", "MONGO_URI", "UPLOAD_FOLDER", "ALLOWED_EXTENSIONS", "MAX_CONTENT_LENGTH"}

\* An extension check that only looks for a dot.
allowed_file_any_extension(filename) == HasDot(filename)

allowed_file(filename) ==
    HasDot(filename) /\ LowerStr(RSplit(filename)[2]) \in ALLOWED_EXTENSIONS

\* werkzeug's secure_filename on the characters used here: path separators and
\* spaces become "_", then leading and trailing "." and "_" are stripped.
SafeChar(c) == IF c \in {"/", " "} THEN "_" ELSE c
RECURSIVE LStrip(_)
LStrip(s) == IF s # <<>> /\ Head(s) \in {".", "_"} THEN LStrip(Tail(s)) ELSE s
RECURSIVE RStrip(_)
RStrip(s) ==
    IF s # <<>> /\ s[Len(s)] \in {".", "_"} THEN RStrip(SubSeq(s, 1, Len(s) - 1)) ELSE s
secure_filename(s) == RStrip(LStrip([i \in 1..Len(s) |-> SafeChar(s[i])]))

\* ------------------------------------------------------------------ numbers
DigitVal(c) ==
    CASE c = "0" -> 0 [] c = "1" -> 1 [] c = "2" -> 2 [] c = "3" -> 3 [] c = "4" -> 4
      [] c = "5" -> 5 [] c = "6" -> 6 [] c = "7" -> 7 [] c = "8" -> 8 [] c = "9" -> 9
Digits == {"0", "1", "2", "3", "4", "5", "6", "7", "8", "9"}
AllDigits(s) == \A i \in 1..Len(s) : s[i] \in Digits

RECURSIVE DigitsVal(_)
DigitsVal(s) == IF s = <<>> THEN 0 ELSE 10 * DigitsVal(SubSeq(s, 1, Len(s) - 1)) + DigitVal(s[Len(s)])

RECURSIVE Pow10(_)
Pow10(n) == IF n = 0 THEN 1 ELSE 10 * Pow10(n - 1)

Signed(s) == s # <<>> /\ Head(s) \in {"-", "+"}
Sign(s) == IF s # <<>> /\ Head(s) = "-" THEN -1 ELSE 1
Unsigned(s) == IF Signed(s) THEN Tail(s) ELSE s

\* int(s): an optional sign and at least one decimal digit, else ValueError.
IntOk(s) == Unsigned(s) # <<>> /\ AllDigits(Unsigned(s))
IntVal(s) == Sign(s) * DigitsVal(Unsigned(s))

\* float(s): an optional sign, decimal digits with at most one point and at least
\* one digit, else ValueError.  The value is the fraction num / den.
FloatOk(s) ==
    LET u == Unsigned(s)
        parts == RSplit(u)
    IN  IF HasDot(u)
        THEN /\ AllDigits(parts[1]) /\ AllDigits(parts[2])
             /\ Len(parts[1]) + Len(parts[2]) > 0
        ELSE u # <<>> /\ AllDigits(u)
FloatVal(s) ==
    LET u == Unsigned(s)
        parts == RSplit(u)
    IN  IF HasDot(u)
        THEN [num |-> Sign(s) * (DigitsVal(parts[1]) * Pow10(Len(parts[2])) + DigitsVal(parts[2])),
              den |-> Pow10(Len(parts[2]))]
        ELSE [num |-> Sign(s) * DigitsVal(u), den |-> 1]

\* -------------------------------------------------------------- identifiers
\* An identifier's string form is a sequence of characters; bson's ObjectId(s)
\* accepts exactly the strings of OidLen hexadecimal digits.
HexDigits == Digits \cup {"a", "b", "c", "d", "e", "f"}
OidDigit == <<"1", "2", "3", "4", "5", "6", "7", "8", "9", "a", "b", "c", "d", "e", "f">>

\* The hexadecimal form of the n-th identifier the store generates.
OidHexOf(n) == [i \in 1..OidLen |-> IF i = OidLen THEN OidDigit[n] ELSE "0"]

ValidOid(s) == Len(s) = OidLen /\ \A i \in 1..Len(s) : s[i] \in HexDigits

\* A stored _id is an ObjectId, or the string a document was inserted with.
ObjectId(s) == [kind |-> "ObjectId", hex |-> s]
StrId(s) == [kind |-> "str", hex |-> s]
\* str(_id)
IdStr(id) == id.hex

\* ---------------------------------------------------------------- passwords
\* The salts generate_password_hash may draw.
Salts == {"s1"}

\* A "hash" that stores the password as submitted.
generate_password_hash_plain(password, salt) == password

\* werkzeug's generate_password_hash with a given salt: method$salt$digest.
generate_password_hash(password, salt) ==
    "scrypt$" \o salt \o "$" \o "H(" \o salt \o "," \o password \o ")"

\* A check that only recognises a well-formed hash and never compares passwords.
check_password_hash_unchecked(pwhash, password) ==
    \E salt \in Salts, p \in {"", "pw1", "pw2", "pw3"} :
        pwhash = generate_password_hash(p, salt)

\* check_password_hash: re-hash the password with the stored salt and compare.
check_password_hash(pwhash, password) ==
    \E salt \in Salts : pwhash = generate_password_hash(password, salt)

\* ------------------------------------------------------------------- state
VARIABLES
    users,      \* mongo.db.users: the documents in natural (insertion) order
    products,   \* mongo.db.products
    files,      \* names of the files in UPLOAD_FOLDER
    session,    \* the browser's Flask session: a mapping
    now,        \* the wall clock, in seconds
    nextOid,    \* how many ObjectIds the store has generated, plus one
    steps,      \* requests served so far
    resp        \* the last response: route, flashed message, redirect or view

vars == <<users, products, files, session, now, nextOid, steps, resp>>

NoImage == [dir |-> <<>>, file |-> <<>>]
NoId == [kind |-> "None", hex |-> <<>>]

Resp(route, flash, target) ==
    [route |-> route, flash |-> flash, target |-> target, image |-> NoImage]

\* datetime.now().strftime("%Y%m%d%H%M%S") and ("%Y%m%d_%H%M%S")
ClockStr == <<"000001", "000002", "000003", "000004", "000005">>
StampCompact(t) == <<"20240101", ClockStr[t]>>
StampUnderscore(t) == <<"20240101", "_", ClockStr[t]>>

\* An uploaded file part: absent from request.files, or present with a filename.
NoUpload == [present |-> FALSE, filename |-> <<>>]
Upload(fn) == [present |-> TRUE, filename |-> fn]

\* ------------------------------------------------------------- store access
\* find_one: the index of the first matching document, 0 when there is none.
LastOf(idx) == IF idx = {} THEN 0 ELSE CHOOSE i \in idx : \A j \in idx : i >= j
FirstOf(idx) == IF idx = {} THEN 0 ELSE CHOOSE i \in idx : \A j \in idx : i <= j
\* A lookup that returns the newest match instead of the first.
FindUserByEmail_last(email) ==
    LastOf({i \in 1..Len(users) : "email" \in DOMAIN users[i] /\ users[i]["email"] = email})

FindUserByEmail(email) ==
    FirstOf({i \in 1..Len(users) : "email" \in DOMAIN users[i] /\ users[i]["email"] = email})
FindUserById(id) ==
    FirstOf({i \in 1..Len(users) : users[i]["_id"] = id})

\* update_one({'_id': id}, {'$set': upd}): the users collection afterwards.
UpdateOne(id, upd) ==
    IF FindUserById(id) = 0 THEN users
    ELSE [users EXCEPT ![FindUserById(id)] = Merge(@, upd)]

\* ---------------------------------------------------------- session helper
\* A validation that takes any user_id the session holds, without parsing it.
validate_user_session_unparsed(sess) ==
    IF "user_id" \notin DOMAIN sess THEN NoId ELSE ObjectId(sess["user_id"])

\* validate_user_session: the ObjectId of the session's user_id, or NoId.
validate_user_session(sess) ==
    IF "user_id" \notin DOMAIN sess THEN NoId
    ELSE IF ValidOid(sess["user_id"]) THEN ObjectId(sess["user_id"])
    ELSE NoId
\* ... and the session it leaves: cleared when the identifier is malformed.
SessionValidated(sess) ==
    IF "user_id" \in DOMAIN sess /\ ~ValidOid(sess["user_id"]) THEN EmptyDict ELSE sess

Init ==
    /\ users = <<>>
    /\ products = <<>>
    /\ files = {}
    /\ session = EmptyDict
    /\ now = 1
    /\ nextOid = 1
    /\ steps = 0
    /\ resp = Resp("", "", "")

\* ---------------------------------------------------------------- register
RegisterRequired == {"name", "email", "password", "user_type"}

\* The generated file name: user_<timestamp>.<ext>
RegisterFilename(upload, t) ==
    <<"user_">> \o StampCompact(t) \o <<".">>
        \o LowerStr(RSplit(secure_filename(upload.filename))[2])

\* The document register inserts, before the store assigns an _id.
RegisterDoc(form, upload, salt, t) ==
    LET base == Merge(form,
                  [image_url |-> [dir |-> <<"uploads">>, file |-> RegisterFilename(upload, t)],
                   password |-> generate_password_hash(form["password"], salt),
                   created_at |-> t])
    IN  IF form["user_type"] = "farmer"
        THEN Merge(base,
               [farm_name |-> Get(form, "farm_name", ""),
                location |-> [address |-> Get(form, "address", ""),
                              city |-> Get(form, "city", ""),
                              state |-> Get(form, "state", ""),
                              zipcode |-> Get(form, "zipcode", "")]])
        ELSE base

\* insert_one keeps a submitted _id (a string) and generates an ObjectId otherwise.
InsertId(doc) ==
    IF "_id" \in DOMAIN doc THEN StrId(doc["_id"]) ELSE ObjectId(OidHexOf(nextOid))

register(form, upload, salt) ==
    /\ steps < MaxSteps
    /\ steps' = steps + 1
    /\ UNCHANGED <<products, session, now>>
    /\ IF ~(RegisterRequired \subseteq DOMAIN form) \/ ~upload.present
       THEN /\ resp' = Resp("/register",
                  "Please fill all required fields including profile picture", "redirect:register")
            /\ UNCHANGED <<users, files, nextOid>>
       ELSE IF upload.filename = <<>>
       THEN /\ resp' = Resp("/register", "Profile picture is required", "redirect:register")
            /\ UNCHANGED <<users, files, nextOid>>
       ELSE IF ~allowed_file(upload.filename)
       THEN /\ resp' = Resp("/register", "Only JPG, PNG files are allowed", "redirect:register")
            /\ UNCHANGED <<users, files, nextOid>>
       ELSE IF Len(RSplit(secure_filename(upload.filename))) < 2
       THEN \* IndexError before the file is saved
            /\ resp' = Resp("/register",
                  "Account creation failed. Please try again.", "redirect:register")
            /\ UNCHANGED <<users, files, nextOid>>
       ELSE LET doc == RegisterDoc(form, upload, salt, now)
                id == InsertId(doc)
            IN  /\ files' = files \cup {RegisterFilename(upload, now)}
                /\ IF FindUserById(id) # 0
                   THEN \* DuplicateKeyError, after the file was saved
                        /\ resp' = Resp("/register",
                              "Account creation failed. Please try again.", "redirect:register")
                        /\ UNCHANGED <<users, nextOid>>
                   ELSE /\ Len(users) < MaxUsers
                        /\ users' = Append(users, Merge(doc, [k \in {"_id"} |-> id]))
                        /\ nextOid' = IF "_id" \in DOMAIN doc THEN nextOid ELSE nextOid + 1
                        /\ resp' = Resp("/register",
                              "Account created successfully! Please login.", "redirect:login")

\* ------------------------------------------------------------ login, logout
login(form) ==
    LET email == Get(form, "email", None)
        password == Get(form, "password", None)
        i == FindUserByEmail(email)
    IN  /\ steps < MaxSteps
        /\ steps' = steps + 1
        /\ UNCHANGED <<users, products, files, now, nextOid>>
        /\ IF email \in {None, ""} \/ password \in {None, ""}
           THEN /\ resp' = Resp("/login", "Please enter both email and password", "redirect:login")
                /\ UNCHANGED session
           ELSE IF i # 0 /\ check_password_hash(users[i]["password"], password)
           THEN /\ session' = Merge(session,
                                [user_id |-> IdStr(users[i]["_id"]),
                                 user_type |-> users[i]["user_type"],
                                 name |-> Get(users[i], "name", "User")])
                /\ resp' = Resp("/login", "Login successful!", "redirect:dashboard")
           ELSE /\ resp' = Resp("/login", "Invalid email or password", "render:auth/login.html")
                /\ UNCHANGED session

logout ==
    /\ steps < MaxSteps
    /\ steps' = steps + 1
    /\ session' = EmptyDict
    /\ resp' = Resp("/logout", "You have been logged out", "redirect:index")
    /\ UNCHANGED <<users, products, files, now, nextOid>>

\* A second of wall-clock time passes.
Tick ==
    /\ now < MaxTime
    /\ now' = now + 1
    /\ UNCHANGED <<users, products, files, session, nextOid, steps, resp>>

\* --------------------------------------------------------------- dashboard
dashboard ==
    LET user_id == validate_user_session(session)
        sess == SessionValidated(session)
    IN  /\ steps < MaxSteps
        /\ steps' = steps + 1
        /\ session' = sess
        /\ UNCHANGED <<users, products, files, now, nextOid>>
        /\ resp' = IF user_id = NoId
                   THEN Resp("/dashboard", "Please login to access dashboard", "redirect:login")
                   ELSE IF "user_type" \notin DOMAIN sess
                   THEN \* KeyError on session['user_type']
                        Resp("/dashboard", "Error loading dashboard", "redirect:index")
                   ELSE IF sess["user_type"] = "farmer"
                   THEN Resp("/dashboard", "", "render:farmers/dashboard.html")
                   ELSE Resp("/dashboard", "", "render:customers/dashboard.html")

\* ------------------------------------------------------------- add_product
ProductRequired == {"name", "category", "price", "quantity", "description"}

\* <timestamp>_<sanitized original name>
ProductFilename(upload, t) ==
    StampUnderscore(t) \o <<"_">> \o secure_filename(upload.filename)

\* url_for('static', filename='uploads/<name>'): /static/uploads/<name>
StaticUrl(filename) == [dir |-> <<"", "static", "uploads">>, file |-> filename]

ProductDoc(form, upload, user_id, t) ==
    [name |-> form["name"],
     category |-> form["category"],
     price |-> FloatVal(form["price"]),
     quantity |-> IntVal(form["quantity"]),
     description |-> form["description"],
     farmer_id |-> user_id,
     created_at |-> t,
     is_organic |-> "is_organic" \in DOMAIN form,
     image_url |-> StaticUrl(ProductFilename(upload, t))]

add_product(method, form, upload) ==
    LET user_id == validate_user_session(session)
        sess == SessionValidated(session)
        url == "redirect:/products/new"
    IN  /\ steps < MaxSteps
        /\ steps' = steps + 1
        /\ session' = sess
        /\ UNCHANGED <<users, now>>
        /\ IF user_id = NoId \/ Get(sess, "user_type", None) # "farmer"
           THEN /\ resp' = Resp("/products/new",
                      "Please login as a farmer to add products", "redirect:login")
                /\ UNCHANGED <<products, files, nextOid>>
           ELSE IF method = "GET"
           THEN /\ resp' = Resp("/products/new", "", "render:products/create.html")
                /\ UNCHANGED <<products, files, nextOid>>
           ELSE IF ~(ProductRequired \subseteq DOMAIN form)
           THEN /\ resp' = Resp("/products/new", "Please fill all required fields", url)
                /\ UNCHANGED <<products, files, nextOid>>
           ELSE IF ~FloatOk(form["price"]) \/ ~IntOk(form["quantity"])
           THEN /\ resp' = Resp("/products/new", "Invalid price or quantity", url)
                /\ UNCHANGED <<products, files, nextOid>>
           ELSE IF ~upload.present
           THEN /\ resp' = Resp("/products/new", "No file was submitted", url)
                /\ UNCHANGED <<products, files, nextOid>>
           ELSE IF upload.filename = <<>>
           THEN /\ resp' = Resp("/products/new", "No file selected", url)
                /\ UNCHANGED <<products, files, nextOid>>
           ELSE IF allowed_file(upload.filename)
           THEN /\ Len(products) < MaxProducts
                /\ files' = files \cup {ProductFilename(upload, now)}
                /\ products' = Append(products,
                       Merge(ProductDoc(form, upload, user_id, now),
                             [k \in {"_id"} |-> ObjectId(OidHexOf(nextOid))]))
                /\ nextOid' = nextOid + 1
                /\ resp' = Resp("/products/new", "Product added successfully!",
                                "redirect:dashboard")
           ELSE /\ resp' = Resp("/products/new",
                      "Allowed file types: png, jpg, jpeg, gif", url)
                /\ UNCHANGED <<products, files, nextOid>>

\* ---------------------------------------------------------- update_profile
\* The mapping update_profile hands to $set: None values removed at the top level.
ProfileUpdateData(form, sess) ==
    LET keys == {"name", "email", "phone", "description"}
                  \cup (IF Get(sess, "user_type", None) = "farmer" THEN {"farm_name"} ELSE {})
        scalars == [k \in keys |-> Get(form, k, None)]
        kept == Restrict(scalars, {k \in keys : scalars[k] # None})
    IN  IF Get(sess, "user_type", None) = "farmer"
        THEN Merge(kept,
               [location |-> [address |-> Get(form, "address", None),
                              city |-> Get(form, "city", None),
                              state |-> Get(form, "state", None),
                              zipcode |-> Get(form, "zipcode", None)]])
        ELSE kept

\* serverAccepts: whether the store accepts a $set of no fields (newer servers
\* do, older ones answer with a write error).
update_profile(form, serverAccepts) ==
    LET user_id == validate_user_session(session)
        sess == SessionValidated(session)
        update_data == ProfileUpdateData(form, sess)
    IN  /\ steps < MaxSteps
        /\ steps' = steps + 1
        /\ session' = sess
        /\ UNCHANGED <<products, files, now, nextOid>>
        /\ IF user_id = NoId
           THEN /\ resp' = Resp("/update_profile", "Please login first", "redirect:login")
                /\ UNCHANGED users
           ELSE IF DOMAIN update_data = {} /\ ~serverAccepts
           THEN /\ resp' = Resp("/update_profile", "Failed to update profile", "redirect:profile")
                /\ UNCHANGED users
           ELSE /\ users' = UpdateOne(user_id, update_data)
                /\ resp' = Resp("/update_profile", "Profile updated successfully!",
                                "redirect:profile")

\* -------------------------------------------------- update_profile_picture
\* profile_<user id>_<timestamp>.<ext>
PictureFilename(upload, user_id, t) ==
    <<"profile_">> \o IdStr(user_id) \o <<"_">> \o StampCompact(t) \o <<".">>
        \o LowerStr(RSplit(secure_filename(upload.filename))[2])

update_profile_picture(upload) ==
    LET user_id == validate_user_session(session)
        sess == SessionValidated(session)
    IN  /\ steps < MaxSteps
        /\ steps' = steps + 1
        /\ session' = sess
        /\ UNCHANGED <<products, now, nextOid>>
        /\ IF user_id = NoId
           THEN /\ resp' = Resp("/update_profile_picture", "Please login first", "redirect:login")
                /\ UNCHANGED <<users, files>>
           ELSE IF ~upload.present \/ upload.filename = <<>>
           THEN /\ resp' = Resp("/update_profile_picture", "No file selected", "redirect:profile")
                /\ UNCHANGED <<users, files>>
           ELSE IF ~allowed_file(upload.filename)
           THEN /\ resp' = Resp("/update_profile_picture",
                      "Allowed file types: png, jpg, jpeg, gif", "redirect:profile")
                /\ UNCHANGED <<users, files>>
           ELSE IF Len(RSplit(secure_filename(upload.filename))) < 2
           THEN \* IndexError before the file is saved
                /\ resp' = Resp("/update_profile_picture",
                      "Error updating profile picture", "redirect:profile")
                /\ UNCHANGED <<users, files>>
           ELSE LET filename == PictureFilename(upload, user_id, now)
                    image_url == [dir |-> <<"uploads">>, file |-> filename]
                    i == FindUserById(user_id)
                    modified == i # 0 /\ Get(users[i], "image_url", NoImage) # image_url
                IN  /\ files' = files \cup {filename}
                    /\ users' = UpdateOne(user_id, [image_url |-> image_url])
                    /\ resp' = IF modified
                               THEN Resp("/update_profile_picture",
                                      "Profile picture updated successfully!", "redirect:profile")
                               ELSE Resp("/update_profile_picture",
                                      "Failed to update profile picture", "redirect:profile")

\* ----------------------------------------------------- update_social_links
Platforms == {"facebook", "twitter", "instagram", "youtube"}

\* The submitted links, empty and absent ones removed.
SocialLinks(form) ==
    Restrict(form, {k \in Platforms \cap DOMAIN form : form[k] # ""})

update_social_links(form) ==
    LET user_id == validate_user_session(session)
        sess == SessionValidated(session)
    IN  /\ steps < MaxSteps
        /\ steps' = steps + 1
        /\ session' = sess
        /\ UNCHANGED <<products, files, now, nextOid>>
        /\ IF user_id = NoId
           THEN /\ resp' = Resp("/update_social_links", "", "redirect:login")
                /\ UNCHANGED users
           ELSE /\ users' = UpdateOne(user_id, [social_links |-> SocialLinks(form)])
                /\ resp' = Resp("/update_social_links", "Social links updated!",
                                "redirect:profile")

\* --------------------------------------------------------- change_password
PasswordRequired == {"current_password", "new_password", "confirm_password"}

change_password(form, salt) ==
    LET user_id == validate_user_session(session)
        sess == SessionValidated(session)
        i == FindUserById(user_id)
    IN  /\ steps < MaxSteps
        /\ steps' = steps + 1
        /\ session' = sess
        /\ UNCHANGED <<products, files, now, nextOid>>
        /\ IF user_id = NoId
           THEN /\ resp' = Resp("/change_password", "", "redirect:login")
                /\ UNCHANGED users
           ELSE IF ~(PasswordRequired \subseteq DOMAIN form)
           THEN \* KeyError on request.form[...]
                /\ resp' = Resp("/change_password", "Failed to change password",
                                "redirect:profile")
                /\ UNCHANGED users
           ELSE IF form["new_password"] # form["confirm_password"]
           THEN /\ resp' = Resp("/change_password", "New passwords do not match",
                                "redirect:profile")
                /\ UNCHANGED users
           ELSE IF i = 0 \/ ~check_password_hash(users[i]["password"], form["current_password"])
           THEN /\ resp' = Resp("/change_password", "Current password is incorrect",
                                "redirect:profile")
                /\ UNCHANGED users
           ELSE /\ users' = UpdateOne(user_id,
                       [password |-> generate_password_hash(form["new_password"], salt)])
                /\ resp' = Resp("/change_password", "Password updated successfully!",
                                "redirect:profile")

\* ----------------------------------------------------------------- profile
\* os.path.exists(os.path.join(app.static_folder, image_url)): the upload
\* directory is static/uploads, and an absolute image_url replaces the root.
ImageExists(image_url) == image_url.dir = <<"uploads">> /\ image_url.file \in files

\* app.config['DEFAULT_IMAGES'][key]
DefaultImage(key) == [dir |-> <<"DEFAULT_IMAGES">>, file |-> <<key>>]

profile ==
    LET user_id == validate_user_session(session)
        sess == SessionValidated(session)
        i == FindUserById(user_id)
        user == users[i]
        image_url == Get(user, "image_url", NoImage)
        default_key == IF Get(user, "user_type", None) = "farmer" THEN "farmer" ELSE "profile"
        template == IF Get(user, "user_type", None) = "farmer"
                    THEN "render:farmers/profile.html" ELSE "render:customers/profile.html"
    IN  /\ steps < MaxSteps
        /\ steps' = steps + 1
        /\ UNCHANGED <<users, products, files, now, nextOid>>
        /\ IF user_id = NoId
           THEN /\ resp' = Resp("/profile", "Please login first", "redirect:login")
                /\ session' = sess
           ELSE IF i = 0
           THEN /\ resp' = Resp("/profile", "Account not found", "redirect:register")
                /\ session' = EmptyDict
           ELSE IF image_url # NoImage /\ ImageExists(image_url)
           THEN /\ resp' = [Resp("/profile", "", template) EXCEPT !.image = image_url]
                /\ session' = sess
           ELSE IF "DEFAULT_IMAGES" \in ConfigKeys
           THEN /\ resp' = [Resp("/profile", "", template) EXCEPT !.image = DefaultImage(default_key)]
                /\ session' = sess
           ELSE \* KeyError: the configuration holds no DEFAULT_IMAGES
                /\ resp' = Resp("/profile", "Failed to load profile. Please try again.",
                                "redirect:dashboard")
                /\ session' = sess

\* ------------------------------------------------------------------ inputs
PngName == <<"a", ".", "p", "n", "g">>
UpperPngName == <<"b", ".", "P", "N", "G">>
ExeName == <<"a", ".", "e", "x", "e">>
NoDotName == <<"p", "n", "g">>
DotPngName == <<".", "p", "n", "g">>
TrailingDotName == <<"a", ".", "p", "n", "g", ".">>

Uploads ==
    { NoUpload, Upload(<<>>), Upload(PngName), Upload(UpperPngName), Upload(ExeName),
      Upload(NoDotName), Upload(DotPngName), Upload(TrailingDotName) }

FarmerAlice ==
    [name |-> "Alice", email |-> "a@x", password |-> "pw1", user_type |-> "farmer",
     farm_name |-> "Green Acres", address |-> "1 Rd", city |-> "Town",
     state |-> "ST", zipcode |-> "11111"]
\* A second account on Alice's email, with another password.
CustomerSameEmail ==
    [name |-> "Carol", email |-> "a@x", password |-> "pw2", user_type |-> "customer"]
CustomerEmptyPassword ==
    [name |-> "Dan", email |-> "b@x", password |-> "", user_type |-> "customer"]
\* Forms that also carry an _id field: request.form.to_dict() keeps every field.
FarmerWithId(hex) ==
    Merge([name |-> "Eve", email |-> "b@x", password |-> "pw2", user_type |-> "farmer"],
          [k \in {"_id"} |-> hex])
RegisterForms ==
    { FarmerAlice, CustomerSameEmail, CustomerEmptyPassword,
      FarmerWithId(OidHexOf(1)), FarmerWithId(<<"z">>),
      [name |-> "Bob", email |-> "b@x"] }

LoginForms ==
    [email : {"a@x", "b@x"}, password : {"", "pw1", "pw2"}]
    \cup { [email |-> "a@x"], [email |-> "", password |-> "pw1"] }

ProductForm(price, quantity) ==
    [name |-> "Tomato", category |-> "vegetables", price |-> price, quantity |-> quantity,
     description |-> "ripe"]
ProductForms ==
    { ProductForm(<<"1", "2", ".", "5">>, <<"1", "0">>),
      Merge(ProductForm(<<"1", "2", ".", "5">>, <<"1", "0">>), [is_organic |-> "on"]),
      ProductForm(<<"-", "1">>, <<"1", "0">>),
      ProductForm(<<"0">>, <<"0">>),
      ProductForm(<<"1", "2", ".", "5">>, <<"-", "3">>),
      ProductForm(<<"a", "b", "c">>, <<"1", "0">>),
      ProductForm(<<"1", "2", ".", "5">>, <<"1", ".", "5">>),
      [name |-> "Tomato", category |-> "vegetables"] }

ProfileForms ==
    { [phone |-> "555"],
      [name |-> "Al"],
      [email |-> "b@x"],
      [email |-> ""],
      [address |-> "2 St", city |-> "City"],
      [name |-> "Al", email |-> "a@x", phone |-> "555", description |-> "hello",
       farm_name |-> "Blue Farm", address |-> "2 St", city |-> "City",
       state |-> "NY", zipcode |-> "22222"],
      EmptyDict }

SocialForms ==
    { [facebook |-> "fb.example/a"],
      [twitter |-> "tw.example/a"],
      [facebook |-> "", twitter |-> "tw.example/b"],
      [facebook |-> "fb.example/a", twitter |-> "tw.example/a",
       instagram |-> "ig.example/a", youtube |-> "yt.example/a"],
      EmptyDict }

PasswordForm(current, new, confirm) ==
    [current_password |-> current, new_password |-> new, confirm_password |-> confirm]
PasswordForms ==
    { PasswordForm("pw1", "pw3", "pw3"), PasswordForm("pw2", "pw3", "pw3"),
      PasswordForm("pw1", "pw3", "pw2"), PasswordForm("pw2", "pw3", "pw2"),
      PasswordForm("pw1", "", ""), PasswordForm("pw2", "", ""),
      [current_password |-> "pw1", new_password |-> "pw3"] }

\* ------------------------------------------------------------- environment
\* A file of the upload directory is removed from outside the application.
ExternalRemoveFile ==
    /\ \E f \in files : files' = files \ {f}
    /\ UNCHANGED <<users, products, session, now, nextOid, steps, resp>>

\* A user document is deleted from outside the application.
ExternalDeleteUser ==
    /\ \E i \in 1..Len(users) :
          users' = SubSeq(users, 1, i - 1) \o SubSeq(users, i + 1, Len(users))
    /\ UNCHANGED <<products, files, session, now, nextOid, steps, resp>>

\* ----------------------------------------------------------- specification
Register == \E form \in RegisterForms, upload \in Uploads, salt \in Salts :
                register(form, upload, salt)
Login == \E form \in LoginForms : login(form)
Logout == logout
Dashboard == dashboard
AddProduct ==
    \/ add_product("GET", EmptyDict, NoUpload)
    \/ \E form \in ProductForms, upload \in Uploads : add_product("POST", form, upload)
UpdateProfile == \E form \in ProfileForms, serverAccepts \in BOOLEAN :
                     update_profile(form, serverAccepts)
UpdateProfilePicture == \E upload \in Uploads : update_profile_picture(upload)
UpdateSocialLinks == \E form \in SocialForms : update_social_links(form)
ChangePassword == \E form \in PasswordForms, salt \in Salts : change_password(form, salt)
Profile == profile

Next ==
    \/ Register
    \/ Login
    \/ Logout
    \/ Dashboard
    \/ AddProduct
    \/ UpdateProfile
    \/ UpdateProfilePicture
    \/ UpdateSocialLinks
    \/ ChangePassword
    \/ Profile
    \/ Tick

Spec == Init /\ [][Next]_vars

\* The handlers together with changes made to the store and the upload
\* directory from outside the application.
NextEnv == Next \/ ExternalRemoveFile \/ ExternalDeleteUser

SpecEnv == Init /\ [][NextEnv]_vars

\* =================================================================== claims
\* What a handler leaves of a stored user, field by field.
HasField(d, k) == k \in DOMAIN d
SameField(old, new, k) == HasField(old, k) => (HasField(new, k) /\ new[k] = old[k])
LocationFields == {"address", "city", "state", "zipcode"}

\* Every field of `old` that `form` does not submit is the same in `new`,
\* each location sub-field and each social link taken on its own.
KeepsAbsent(form, old, new) ==
    /\ \A k \in (DOMAIN old) \ ({"location", "social_links"} \cup DOMAIN form) :
           SameField(old, new, k)
    /\ HasField(old, "location") =>
           /\ HasField(new, "location")
           /\ \A k \in LocationFields \ DOMAIN form : new["location"][k] = old["location"][k]
    /\ HasField(old, "social_links") =>
           /\ HasField(new, "social_links")
           /\ \A k \in (DOMAIN old["social_links"]) \ DOMAIN form :
                  SameField(old["social_links"], new["social_links"], k)

\* C1: a POST to /update_profile or /update_social_links leaves every field of
\* every stored user that is absent from the submitted form at its previous
\* value, each location sub-field and each social-link entry included.
C1_PartialUpdate ==
    [][\A form \in ProfileForms \cup SocialForms :
          (\/ /\ resp'.route = "/update_profile"
                 /\ \E serverAccepts \in BOOLEAN : update_profile(form, serverAccepts)
              \/ /\ resp'.route = "/update_social_links"
                 /\ update_social_links(form))
          => /\ Len(users') = Len(users)
             /\ \A i \in 1..Len(users) : KeepsAbsent(form, users[i], users'[i])]_vars

\* C2: a login POST that submits a stored user's email with password p sets the
\* session's user_id to that user's identifier if and only if p verifies
\* against that user's stored hash.
C2_LoginIffVerifies ==
    [][\A form \in LoginForms :
          (/\ resp'.route = "/login"
           /\ HasField(form, "email") /\ HasField(form, "password")
           /\ login(form))
          => \A i \in 1..Len(users) :
                users[i]["email"] = form["email"]
                => ((/\ resp'.flash = "Login successful!"
                     /\ HasField(session', "user_id")
                     /\ session'["user_id"] = IdStr(users[i]["_id"]))
                    <=> check_password_hash(users[i]["password"], form["password"]))]_vars

\* The password re-hashed with some salt gives the stored hash.
Verifies(stored, password) ==
    \E salt \in Salts : stored = generate_password_hash(password, salt)

\* The session names a well-formed identifier.
SessionWellFormed == HasField(session, "user_id") /\ ValidOid(session["user_id"])

\* C3: a POST to /change_password changes a stored password hash only of the
\* session's user, and only if all three fields are submitted, new_password
\* equals confirm_password and current_password verifies against that user's
\* stored hash; otherwise every stored hash stays as it was.
C3_PasswordChangeGuarded ==
    [][\A form \in PasswordForms, salt \in Salts :
          (resp'.route = "/change_password" /\ change_password(form, salt))
          => /\ Len(users') = Len(users)
             /\ \A i \in 1..Len(users) :
                   users'[i]["password"] # users[i]["password"]
                   => /\ PasswordRequired \subseteq DOMAIN form
                      /\ form["new_password"] = form["confirm_password"]
                      /\ SessionWellFormed
                      /\ users[i]["_id"] = ObjectId(session["user_id"])
                      /\ Verifies(users[i]["password"], form["current_password"])]_vars

\* C3 witness: a password change went through and the new password verifies.
C3_Witness ==
    /\ resp.route = "/change_password"
    /\ resp.flash = "Password updated successfully!"
    /\ \E i \in 1..Len(users) :
          /\ SessionWellFormed
          /\ users[i]["_id"] = ObjectId(session["user_id"])
          /\ Verifies(users[i]["password"], "pw3")

\* C4: a request to /products/new, /update_profile, /update_profile_picture,
\* /update_social_links or /change_password made without a well-formed session
\* user_id (for /products/new also without user_type "farmer") is redirected to
\* login and leaves users, products and the upload directory unchanged.
C4_GuardedHandlers ==
    [][((/\ ~SessionWellFormed
         /\ \/ resp'.route = "/update_profile" /\ UpdateProfile
            \/ resp'.route = "/update_profile_picture" /\ UpdateProfilePicture
            \/ resp'.route = "/update_social_links" /\ UpdateSocialLinks
            \/ resp'.route = "/change_password" /\ ChangePassword)
        \/ (/\ ~SessionWellFormed \/ Get(session, "user_type", None) # "farmer"
            /\ resp'.route = "/products/new"
            /\ AddProduct))
       => /\ resp'.target = "redirect:login"
          /\ users' = users
          /\ products' = products
          /\ files' = files]_vars

\* C4 witness: a logged-in customer asked for /products/new and was sent to login.
C4_Witness ==
    /\ resp.route = "/products/new"
    /\ resp.target = "redirect:login"
    /\ HasField(session, "user_id")
    /\ session["user_type"] = "customer"
    /\ products = <<>>

\* A file name with no dot, or whose part after the last dot, lower-cased, is
\* none of png, jpg, jpeg, gif.
Refused(filename) ==
    \/ \A i \in 1..Len(filename) : filename[i] # "."
    \/ \E i \in 1..Len(filename) :
          /\ filename[i] = "."
          /\ \A j \in (i + 1)..Len(filename) : filename[j] # "."
          /\ LowerStr(SubSeq(filename, i + 1, Len(filename)))
                \notin { <<"p","n","g">>, <<"j","p","g">>, <<"j","p","e","g">>, <<"g","i","f">> }

SuccessMessages ==
    { "Account created successfully! Please login.", "Product added successfully!",
      "Profile picture updated successfully!" }

\* C5: an upload to /register, /products/new or /update_profile_picture whose
\* file name has no dot or a disallowed extension is rejected: no file is
\* written and no user or product is inserted or modified.
C5_RefusedUploads ==
    [][\/ /\ resp'.flash \notin SuccessMessages
          /\ resp'.target \in {"redirect:register", "redirect:/products/new",
                               "redirect:profile", "redirect:login"}
          /\ files' = files
          /\ users' = users
          /\ products' = products
       \/ \A upload \in Uploads :
             ~(/\ upload.present
               /\ Refused(upload.filename)
               /\ \/ /\ resp'.route = "/register"
                     /\ \E form \in RegisterForms, salt \in Salts :
                           register(form, upload, salt)
                  \/ /\ resp'.route = "/products/new"
                     /\ \E form \in ProductForms : add_product("POST", form, upload)
                  \/ /\ resp'.route = "/update_profile_picture"
                     /\ update_profile_picture(upload))]_vars

\* C5 witness: a logged-in farmer's product upload named a.exe was turned down.
C5_Witness ==
    /\ resp.route = "/products/new"
    /\ resp.flash = "Allowed file types: png, jpg, jpeg, gif"
    /\ HasField(session, "user_id")
    /\ products = <<>>

\* The first stored user with this email, 0 when there is none.
FirstWithEmail(email) ==
    IF \E i \in 1..Len(users) : users[i]["email"] = email
    THEN CHOOSE i \in 1..Len(users) :
            /\ users[i]["email"] = email
            /\ \A j \in 1..(i - 1) : users[j]["email"] # email
    ELSE 0

\* C6 as claimed: a login POST with a stored user's email and a password that
\* does not verify against that user's hash yields "Invalid email or password"
\* and leaves the session with no user_id, also after an earlier login.
C6_FailedLoginNoUser ==
    [][\A form \in LoginForms :
          (/\ resp'.route = "/login"
           /\ HasField(form, "email") /\ HasField(form, "password")
           /\ login(form)
           /\ \E i \in 1..Len(users) :
                 /\ users[i]["email"] = form["email"]
                 /\ ~Verifies(users[i]["password"], form["password"]))
          => /\ resp'.flash = "Invalid email or password"
             /\ ~HasField(session', "user_id")]_vars

\* C6 amended: a login POST with a stored user's email and a password that does
\* not verify against the hash of the first stored record with that email
\* yields "Invalid email or password" ("Please enter both email and password"
\* when the email or the password is empty) and leaves the session as it was.
C6_FailedLoginKeepsSession ==
    [][\A form \in LoginForms :
          (/\ resp'.route = "/login"
           /\ HasField(form, "email") /\ HasField(form, "password")
           /\ login(form)
           /\ FirstWithEmail(form["email"]) # 0
           /\ ~Verifies(users[FirstWithEmail(form["email"])]["password"], form["password"]))
          => /\ resp'.flash = IF form["email"] = "" \/ form["password"] = ""
                              THEN "Please enter both email and password"
                              ELSE "Invalid email or password"
             /\ session' = session]_vars

\* C6 witness: a wrong password for a stored email was turned down while the
\* session of an earlier login is still there.
C6_Witness ==
    /\ resp.route = "/login"
    /\ resp.flash = "Invalid email or password"
    /\ HasField(session, "user_id")
    /\ \E i \in 1..Len(users) : users[i]["email"] = "a@x"

\* C7: every stored product's farmer_id is the identifier of a stored user
\* whose user_type is "farmer".
C7_FarmerIdIsFarmer ==
    \A p \in 1..Len(products) :
        \E i \in 1..Len(users) :
            /\ users[i]["_id"] = products[p]["farmer_id"]
            /\ users[i]["user_type"] = "farmer"

\* C8: every stored product has a price above zero and a quantity of at least zero.
C8_PositivePrice ==
    \A p \in 1..Len(products) :
        /\ products[p]["price"].num > 0
        /\ products[p]["quantity"] >= 0

\* Every password a form of this model submits.
PlainPasswords == {"", "pw1", "pw2", "pw3"}

\* C9: no stored password field ever holds a submitted plaintext: what a
\* registration or a password change stores differs from the password it was
\* given, and a stored password field changes in no request but a
\* /change_password (not in update_profile, update_social_links or
\* update_profile_picture).
C9_PasswordHashed ==
    [][/\ \A i \in 1..Len(users') : users'[i]["password"] \notin PlainPasswords
       /\ Len(users') = Len(users) + 1
             => \A form \in RegisterForms, upload \in Uploads, salt \in Salts :
                   \/ /\ HasField(form, "password")
                      /\ users'[Len(users')]["password"] # form["password"]
                   \/ ~register(form, upload, salt)
       /\ Len(users') >= Len(users)
       /\ \A i \in 1..Len(users) :
             users'[i]["password"] # users[i]["password"]
             => /\ resp'.route = "/change_password"
                /\ \E form \in PasswordForms, salt \in Salts :
                      /\ change_password(form, salt)
                      /\ users'[i]["password"] # form["new_password"]]_vars

\* C9 witness: an account was registered and its stored password is a hash of "pw1".
C9_Witness ==
    /\ resp.flash = "Account created successfully! Please login."
    /\ \E i \in 1..Len(users) :
          /\ users[i]["password"] # "pw1"
          /\ check_password_hash(users[i]["password"], "pw1")

\* C10: GET /profile by a logged-in user whose record exists and whose
\* image_url is empty or names no file on disk renders the profile view with
\* the default image of the user's role.
C10_DefaultImage ==
    [][(/\ profile
        /\ SessionWellFormed
        /\ \E i \in 1..Len(users) :
              /\ users[i]["_id"] = ObjectId(session["user_id"])
              /\ \/ users[i]["image_url"].dir # <<"uploads">>
                 \/ users[i]["image_url"].file \notin files)
       => \E i \in 1..Len(users) :
             /\ users[i]["_id"] = ObjectId(session["user_id"])
             /\ resp'.target = IF users[i]["user_type"] = "farmer"
                               THEN "render:farmers/profile.html"
                               ELSE "render:customers/profile.html"
             /\ resp'.image = DefaultImage(IF users[i]["user_type"] = "farmer"
                                           THEN "farmer" ELSE "profile")]_vars

\* A path of the form uploads/<filename>: one directory component, "uploads",
\* with no empty first component (a leading slash) and no "static" prefix.
RelativeUpload(image_url) ==
    /\ image_url.dir = <<"uploads">>
    /\ image_url.file # <<>>

\* C11: every image_url stored by an upload, in a user record (registration,
\* profile-picture update) and in a product record (product creation) alike,
\* is a relative path of the form uploads/<filename>.
C11_RelativeImageUrl ==
    /\ \A i \in 1..Len(users) : RelativeUpload(users[i]["image_url"])
    /\ \A p \in 1..Len(products) : RelativeUpload(products[p]["image_url"])

====
